---- MODULE Spec2Model ----
(***************************************************************************)
(* A model of enterprise/signals/selections.py: the argument-binding       *)
(* decorator selection_func, the Selection adapter and the catalog of      *)
(* selection (partition) functions.                                        *)
(*                                                                         *)
(* Representation.  A Python str is the sequence of its characters, so     *)
(* that "_".join and the substring test `b in val` are computed.  A numpy  *)
(* array is the sequence of its elements.  A dict is the function from its *)
(* keys to its values; where insertion order decides the result (the keys  *)
(* of a filter dictionary) the dict is the sequence of its items.  An      *)
(* attribute value of the domain object is a record                        *)
(*   [kind |-> "array" | "scalar" | "table" | "str", call |-> ..., v |-> ...] *)
(* where call says that the attribute is a zero-argument accessor          *)
(* returning the value.                                                    *)
(***************************************************************************)
EXTENDS Integers, Sequences, FiniteSets, TLC

VARIABLES
    psr,    \* the domain object: a function from attribute names to values
    func,   \* the selection function in use: its name and, for a closure of
            \* custom_backends[_dict], the filter spec cb it captured
    ret,    \* what the last operation was called with and what it returned
    calls   \* the names the parameter factory was called with, in order

vars == <<psr, func, ret, calls>>

\* ---------------------------------------------------------------- bounds

\* Longest observation array of the catalog specification.
MaxLen == 2

\* ------------------------------------------------------------- utilities

Range(s) == {s[i] : i \in 1..Len(s)}

Restrict(f, S) == [k \in S |-> f[k]]

Array(s) == [kind |-> "array", call |-> FALSE, v |-> s]

Scalar(x) == [kind |-> "scalar", call |-> FALSE, v |-> <<x>>]

Accessor(val) == [val EXCEPT !.call = TRUE]

\* ------------------------------------------------ selection_func (20-51)

\* obj() if hasattr(obj, "__call__") else obj
call_me_maybe(obj) == IF obj.call THEN [obj EXCEPT !.call = FALSE] ELSE obj

\* attr[mask] for a boolean mask as long as attr: the selected elements.
RECURSIVE BoolIndex(_, _)
BoolIndex(v, m) ==
    IF v = <<>> THEN <<>>
    ELSE (IF Head(m) THEN <<Head(v)>> ELSE <<>>) \o BoolIndex(Tail(v), Tail(m))

\* mask = kwargs.get("mask", Ellipsis); getattr(mask, "shape", [0])[0]
MaskShape0(kwargs) ==
    IF "mask" \in DOMAIN kwargs THEN Len(kwargs["mask"]) ELSE 0

\* Lines 40-44: the value appended for one attribute of the domain object.
\* Indexing by Ellipsis (no mask given, an array of length 0) is the array.
ResolveAttr(obj, kwargs) ==
    LET attr == call_me_maybe(obj)
    IN  IF attr.kind = "array" /\ MaskShape0(kwargs) = Len(attr.v)
        THEN IF "mask" \in DOMAIN kwargs
             THEN [attr EXCEPT !.v = BoolIndex(attr.v, kwargs["mask"])]
             ELSE attr
        ELSE attr

\* Lines 28, 35-44: targs, the positional arguments given followed by one
\* value per declared parameter past them that is no keyword and is an
\* attribute of psr, in declaration order.
WrapperTargs(funcargs, args, kwargs) ==
    IF Len(args) < Len(funcargs) /\ "psr" \in DOMAIN kwargs
    THEN LET p == kwargs["psr"]
             Fill(funcarg) == funcarg \notin DOMAIN kwargs /\ funcarg \in DOMAIN p
             rest == SelectSeq(SubSeq(funcargs, Len(args) + 1, Len(funcargs)), Fill)
         IN  args \o [i \in 1..Len(rest) |-> ResolveAttr(p[rest[i]], kwargs)]
    ELSE args

\* Lines 32-33, 46-47: the keywords passed on.
WrapperKwargs(funcargs, kwargs) ==
    LET drop == {"mask"} \cup (IF "psr" \in Range(funcargs) THEN {} ELSE {"psr"})
    IN  Restrict(kwargs, DOMAIN kwargs \ drop)

Raise(e) == [err |-> e, bound |-> <<>>]

\* func(*targs, **kwargs): Python's binding of a call to a function whose
\* parameters are all named and positional, without defaults.  Keywords are
\* bound (and refused) before the argument count is checked.
PyCall(funcargs, targs, kwargs) ==
    LET n      == Len(funcargs)
        np     == IF Len(targs) < n THEN Len(targs) ELSE n
        byPos  == {funcargs[i] : i \in 1..np}
        Pos(a) == CHOOSE i \in 1..n : funcargs[i] = a
    IN  IF \E k \in DOMAIN kwargs : k \notin Range(funcargs)
        THEN Raise("TypeError: unexpected keyword argument")
        ELSE IF \E k \in DOMAIN kwargs : k \in byPos
        THEN Raise("TypeError: multiple values for argument")
        ELSE IF Len(targs) > n
        THEN Raise("TypeError: too many positional arguments")
        ELSE IF \E a \in Range(funcargs) : a \notin byPos \cup DOMAIN kwargs
        THEN Raise("TypeError: missing required positional argument")
        ELSE [err   |-> "none",
              bound |-> [a \in Range(funcargs) |->
                            IF a \in byPos THEN targs[Pos(a)] ELSE kwargs[a]]]

\* wrapper(*args, **kwargs), lines 27-49: the binding func is entered with,
\* or the error of the call.
wrapper(funcargs, args, kwargs) ==
    PyCall(funcargs, WrapperTargs(funcargs, args, kwargs),
           WrapperKwargs(funcargs, kwargs))

\* ------------------------------------------------------- str and ndarray

\* "b in val" for two str: b occurs in val, anywhere.
Contains(b, val) ==
    \E i \in 0..(Len(val) - Len(b)) : SubSeq(val, i + 1, i + Len(b)) = b

\* "_".join(parts) for a list of str
RECURSIVE Join(_)
Join(parts) ==
    IF parts = <<>> THEN <<>>
    ELSE IF Len(parts) = 1 THEN parts[1]
    ELSE parts[1] \o <<"_">> \o Join(Tail(parts))

\* np.unique(a): the distinct values; only their set is used.
Unique(a) == Range(a)

\* a == val, elementwise
EqMask(a, val) == [i \in 1..Len(a) |-> a[i] = val]

\* np.ones_like(a, dtype=bool)
OnesLike(a) == [i \in 1..Len(a) |-> TRUE]

\* a.max(), a.min() of a non-empty numeric array
Max(a) == CHOOSE x \in Range(a) : \A y \in Range(a) : y <= x

Min(a) == CHOOSE x \in Range(a) : \A y \in Range(a) : x <= y

\* update that keeps the value of a key already present.
DictSetDefault(d, e) ==
    [k \in DOMAIN d \cup DOMAIN e |-> IF k \in DOMAIN d THEN d[k] ELSE e[k]]

\* d.update(e)
DictUpdate(d, e) ==
    [k \in DOMAIN d \cup DOMAIN e |-> IF k \in DOMAIN e THEN e[k] ELSE d[k]]

Ok(out) == [err |-> "none", out |-> out]

\* A closure's return: the value returned and the value its nonlocal is
\* left with.
Returns(out, c) == [err |-> "none", out |-> out, cb |-> c]

Fail(e) == [err |-> e, out |-> <<>>]

\* ------------------------------------------- selection functions (89-190)

ASP == <<"A", "S", "P">>

GASP == <<"G", "A", "S", "P">>

GUPPI == <<"G", "U", "P", "P", "I">>

PUPPI == <<"P", "U", "P", "P", "I">>

YUPPI == <<"Y", "U", "P", "P", "I">>

\* cut_half with the midpoint value left out of the lower segment.
cut_half_strict(toas) ==
    IF toas = <<>> THEN Fail("ValueError: zero-size array")
    ELSE LET sum == Max(toas) + Min(toas)
         IN  Ok([key \in {<<"t", "1">>, <<"t", "2">>} |->
                    IF key = <<"t", "1">>
                    THEN [i \in 1..Len(toas) |-> 2 * toas[i] < sum]
                    ELSE [i \in 1..Len(toas) |-> 2 * toas[i] > sum]])

\* cut_half(toas), lines 89-92.  toas <= (max + min) / 2 is decided on the
\* doubled values; max() of an empty array raises.
cut_half(toas) ==
    IF toas = <<>> THEN Fail("ValueError: zero-size array")
    ELSE LET sum == Max(toas) + Min(toas)
         IN  Ok([key \in {<<"t", "1">>, <<"t", "2">>} |->
                    IF key = <<"t", "1">>
                    THEN [i \in 1..Len(toas) |-> 2 * toas[i] <= sum]
                    ELSE [i \in 1..Len(toas) |-> 2 * toas[i] > sum]])

\* by_backend(backend_flags), lines 107-110
by_backend(backend_flags) ==
    Ok([val \in Unique(backend_flags) |-> EqMask(backend_flags, val)])

\* flagvals = [val for val in flagvals if any([b in val for b in cb])]
FilterVals(flagvals, tokens) ==
    {val \in flagvals : \E b \in Range(tokens) : Contains(b, val)}

\* nanograv_backends(backend_flags), lines 113-118
ngb == <<ASP, GASP, GUPPI, PUPPI, YUPPI>>

nanograv_backends(backend_flags) ==
    Ok([val \in FilterVals(Unique(backend_flags), ngb) |->
            EqMask(backend_flags, val)])

\* no_selection(toas), lines 127-129
no_selection(toas) == Ok([key \in {<<>>} |-> OnesLike(toas)])

\* A filter spec is [t |-> "None" | "str" | "list" | "dict", l |-> ...]:
\* l is the str, the list of str, or the list of the dict's items
\* [k |-> flag key, f |-> filter spec] in insertion order.
None == [t |-> "None", l |-> <<>>]

Str(s) == [t |-> "str", l |-> s]

List(l) == [t |-> "list", l |-> l]

Dict(items) == [t |-> "dict", l |-> items]

\* list(np.atleast_1d(cb)) for a str or a list of str
AtLeast1dList(c) == IF c.t = "str" THEN List(<<c.l>>) ELSE c

\* custom_backends filtering without the test "cb is not None".
custom_backends_always_filter(c, backend_flags) ==
    LET c1 == AtLeast1dList(c)
    IN  Returns([val \in FilterVals(Unique(backend_flags), c1.l) |->
                    EqMask(backend_flags, val)], c1)

\* custom_backends(cb).backends(backend_flags), lines 133-146: the value
\* returned and the value cb (nonlocal) is left with.
custom_backends(c, backend_flags) ==
    IF c.t # "None"
    THEN LET c1 == AtLeast1dList(c)
         IN  Returns([val \in FilterVals(Unique(backend_flags), c1.l) |->
                         EqMask(backend_flags, val)], c1)
    ELSE Returns([val \in Unique(backend_flags) |-> EqMask(backend_flags, val)], c)

\* The flag values kept for one key of the filter dictionary (171-176,
\* 179-184).
KeyVals(f, a) ==
    IF f.t # "None" THEN FilterVals(Unique(a), AtLeast1dList(f).l) ELSE Unique(a)

\* The array one key of the filter dictionary reads (170, 179).
KeyArray(flagname, backend_flags, flags) ==
    IF flagname = "backend" THEN backend_flags ELSE flags[flagname]

\* The loop of lines 168-185 over the items of the dictionary.
RECURSIVE FlagDict(_, _, _, _)
FlagDict(flagdict, items, backend_flags, flags) ==
    IF items = <<>> THEN flagdict
    ELSE LET a == KeyArray(Head(items).k, backend_flags, flags)
             new == [val \in KeyVals(Head(items).f, a) |-> EqMask(a, val)]
         IN  FlagDict(DictUpdate(flagdict, new), Tail(items), backend_flags, flags)

\* custom_backends_dict(cb).backends(backend_flags, flags, toas), 152-188
custom_backends_dict(c, backend_flags, flags, toas) ==
    IF c.t \in {"str", "list"}
    THEN LET c1 == AtLeast1dList(c)
         IN  Returns([val \in FilterVals(Unique(backend_flags), c1.l) |->
                         EqMask(backend_flags, val)], c1)
    ELSE IF c.t = "dict"
    THEN Returns(FlagDict(<<>>, c.l, backend_flags, flags), c)
    ELSE Returns([key \in {<<>>} |-> OnesLike(toas)], c)

\* ------------------------------------------------- the catalog, called

XYZ == <<"X", "Y", "Z">>

UPPI == <<"U", "P", "P", "I">>

TimeVals == {1, 2, 3}

BackendVals == {ASP, GASP, GUPPI, YUPPI, XYZ}

\* Values of the flag table's columns; B shares values with fe and with
\* the backend flags.
BVals == {ASP, XYZ}

FeVals == {XYZ, <<"L">>}

DictKeys == {"backend", "B", "fe"}

Const(n, x) == [i \in 1..n |-> x]

Ramp(n) == [i \in 1..n |-> i]

\* A domain object with its observation arrays, all of one length.
MkPsr(name, toas, backend_flags, B, fe) ==
    [name          |-> [kind |-> "str", call |-> FALSE, v |-> name],
     toas          |-> Array(toas),
     backend_flags |-> Array(backend_flags),
     flags         |-> [kind |-> "table", call |-> FALSE,
                        v |-> [B |-> B, fe |-> fe]]]

J0 == <<"J", "0">>

\* The domain objects of the catalog specification: every time array, every
\* backend flag array, and every flag table over the shared values.
CatalogPsrs ==
    UNION {
        {MkPsr(J0, toas, Const(n, ASP), Const(n, XYZ), Const(n, XYZ)) :
            toas \in [1..n -> TimeVals]}
        \cup {MkPsr(J0, Ramp(n), bf, Const(n, XYZ), Const(n, XYZ)) :
            bf \in [1..n -> BackendVals]}
        \cup {MkPsr(J0, Ramp(n), x[1], x[2], x[3]) :
            x \in [1..n -> BVals] \X [1..n -> BVals] \X [1..n -> FeVals]}
        : n \in 0..MaxLen}

TopFilters ==
    {None, Str(ASP), Str(UPPI), List(<<ASP, GASP, GUPPI, PUPPI>>),
     List(<<GUPPI, XYZ>>)}

KeyFilters == {None, Str(ASP)}

\* Every filter dictionary over DictKeys, in every insertion order.
FilterDicts ==
    {Dict(items) : items \in
        {s \in UNION {[1..n -> [k : DictKeys, f : KeyFilters]] :
                          n \in 0..Cardinality(DictKeys)} :
            \A i, j \in 1..Len(s) : i # j => s[i].k # s[j].k}}

Closures ==
    {[name |-> "custom_backends", cb |-> c] : c \in TopFilters}
    \cup {[name |-> "custom_backends_dict", cb |-> c] :
            c \in TopFilters \cup FilterDicts}

InitCatalog ==
    /\ psr \in CatalogPsrs
    /\ func \in Closures
    /\ ret = [op |-> "none"]
    /\ calls = <<>>

CallCutHalf ==
    /\ ret' = [op |-> "cut_half", res |-> cut_half(psr.toas.v)]
    /\ UNCHANGED <<psr, func, calls>>

CallByBackend ==
    /\ ret' = [op |-> "by_backend", res |-> by_backend(psr.backend_flags.v)]
    /\ UNCHANGED <<psr, func, calls>>

CallNanogravBackends ==
    /\ ret' = [op |-> "nanograv_backends",
               res |-> nanograv_backends(psr.backend_flags.v)]
    /\ UNCHANGED <<psr, func, calls>>

CallNoSelection ==
    /\ ret' = [op |-> "no_selection", res |-> no_selection(psr.toas.v)]
    /\ UNCHANGED <<psr, func, calls>>

CallCustomBackends ==
    /\ func.name = "custom_backends"
    /\ LET r == custom_backends(func.cb, psr.backend_flags.v)
       IN  /\ ret' = [op |-> "custom_backends", cb |-> func.cb,
                      res |-> Ok(r.out)]
           /\ func' = [func EXCEPT !.cb = r.cb]
    /\ UNCHANGED <<psr, calls>>

CallCustomBackendsDict ==
    /\ func.name = "custom_backends_dict"
    /\ LET r == custom_backends_dict(func.cb, psr.backend_flags.v,
                                     psr.flags.v, psr.toas.v)
       IN  /\ ret' = [op |-> "custom_backends_dict", cb |-> func.cb,
                      res |-> Ok(r.out)]
           /\ func' = [func EXCEPT !.cb = r.cb]
    /\ UNCHANGED <<psr, calls>>

NextCatalog ==
    \/ CallCutHalf
    \/ CallByBackend
    \/ CallNanogravBackends
    \/ CallNoSelection
    \/ CallCustomBackends
    \/ CallCustomBackendsDict

SpecCatalog == InitCatalog /\ [][NextCatalog]_vars

\* ------------------------------------------------ claims on the catalog

\* The arrays of the domain object, as the catalog functions receive them.
Toas == psr.toas.v

BackendFlags == psr.backend_flags.v

Flags == psr.flags.v

\* d maps labels to masks of length n of which every index is in exactly one.
IsPartition(d, n) ==
    /\ \A key \in DOMAIN d : Len(d[key]) = n
    /\ \A i \in 1..n : Cardinality({key \in DOMAIN d : d[key][i]}) = 1

\* C5: for every input array of length N >= 1 the mapping returned by
\* by_backend and by cut_half is a partition of the indices: every mask has
\* length N and every index is true in exactly one mask.
C5_Partition ==
    /\ (ret.op = "by_backend" /\ Len(BackendFlags) >= 1) =>
            /\ ret.res.err = "none"
            /\ IsPartition(ret.res.out, Len(BackendFlags))
    /\ (ret.op = "cut_half" /\ Len(Toas) >= 1) =>
            /\ ret.res.err = "none"
            /\ IsPartition(ret.res.out, Len(Toas))

\* cut_half has split an array into two non-empty segments.
C5_Witness ==
    /\ ret.op = "cut_half"
    /\ ret.res.err = "none"
    /\ \E i, j \in 1..Len(Toas) :
            ret.res.out[<<"t", "1">>][i] /\ ret.res.out[<<"t", "2">>][j]

\* C6 as stated: built with the filter spec None, custom_backends and
\* custom_backends_dict both return what by_backend returns on the array.
C6_Original ==
    (ret.op \in {"custom_backends", "custom_backends_dict"} /\ ret.cb.t = "None")
        => ret.res = by_backend(BackendFlags)

IsBackendNoneDict(c) ==
    /\ c.t = "dict"
    /\ Len(c.l) = 1
    /\ c.l[1].k = "backend"
    /\ c.l[1].f.t = "None"

\* C6 amended: custom_backends(None) returns what by_backend returns;
\* custom_backends_dict(None) returns the single all-true partition of
\* no_selection, and custom_backends_dict({"backend": None}) returns what
\* by_backend returns.
C6_NoneFilter ==
    /\ (ret.op = "custom_backends" /\ ret.cb.t = "None")
            => ret.res = by_backend(BackendFlags)
    /\ (ret.op = "custom_backends_dict" /\ ret.cb.t = "None")
            => ret.res = no_selection(Toas)
    /\ (ret.op = "custom_backends_dict" /\ IsBackendNoneDict(ret.cb))
            => ret.res = by_backend(BackendFlags)

\* custom_backends_dict(None) was called on an array with two backends.
C6_Witness ==
    /\ ret.op = "custom_backends_dict"
    /\ ret.cb.t = "None"
    /\ Cardinality(Unique(BackendFlags)) = 2
    /\ DOMAIN ret.res.out = {<<>>}

\* C7 as stated (the docstring of custom_backends): with the filter
\* ["ASP", "GASP", "GUPPI", "PUPPI"] the function returns the labels and
\* masks of nanograv_backends.
C7_RecoversNanograv ==
    (/\ ret.op = "custom_backends"
     /\ ret.cb.t = "list"
     /\ ret.cb.l = <<ASP, GASP, GUPPI, PUPPI>>)
        => ret.res = nanograv_backends(BackendFlags)

\* The values of key number i of the filter dictionary c that pass its
\* allow-list, and the array they are values of.
ArrayOf(c, i) == KeyArray(c.l[i].k, BackendFlags, Flags)

Passing(c, i) == KeyVals(c.l[i].f, ArrayOf(c, i))

\* C8 as stated: for every key k of a filter dictionary and every value v
\* of k's array that passes k's allow-list, the result has the label v with
\* the mask (array of k == v), whatever the other keys hold.
C8_Original ==
    (ret.op = "custom_backends_dict" /\ ret.cb.t = "dict") =>
        \A i \in 1..Len(ret.cb.l) : \A v \in Passing(ret.cb, i) :
            /\ v \in DOMAIN ret.res.out
            /\ ret.res.out[v] = EqMask(ArrayOf(ret.cb, i), v)

\* C8 amended: the result has the label v for every key k and passing value
\* v, and no other label; its mask is (array of k == v) when no later key of
\* the dictionary has v as a passing value too, so that a value shared by
\* several keys carries the mask of the last of them.
C8_LastKeyWins ==
    (ret.op = "custom_backends_dict" /\ ret.cb.t = "dict") =>
        /\ DOMAIN ret.res.out =
                UNION {Passing(ret.cb, i) : i \in 1..Len(ret.cb.l)}
        /\ \A i \in 1..Len(ret.cb.l) : \A v \in Passing(ret.cb, i) :
                (\A j \in (i + 1)..Len(ret.cb.l) : v \notin Passing(ret.cb, j))
                    => ret.res.out[v] = EqMask(ArrayOf(ret.cb, i), v)

\* Two keys of the dictionary share a passing value on which their arrays
\* differ, and the result carries the later key's mask.
C8_Witness ==
    /\ ret.op = "custom_backends_dict"
    /\ ret.cb.t = "dict"
    /\ \E i, j \in 1..Len(ret.cb.l) :
            /\ i < j
            /\ \E v \in Passing(ret.cb, i) \cap Passing(ret.cb, j) :
                    /\ \A m \in (j + 1)..Len(ret.cb.l) : v \notin Passing(ret.cb, m)
                    /\ EqMask(ArrayOf(ret.cb, i), v) # EqMask(ArrayOf(ret.cb, j), v)
                    /\ ret.res.out[v] = EqMask(ArrayOf(ret.cb, j), v)

\* ------------------------------------------- the decorator, called

\* The parameter lists of the wrapped functions: those of the catalog
\* (toas; backend_flags; backend_flags, flags, toas) and of
\* functions of the caller's own, two of which take the domain object.
FuncSigs ==
    {<<"toas">>, <<"backend_flags">>,
     <<"backend_flags", "flags", "toas">>, <<"toas", "flags">>,
     <<"psr", "toas">>, <<"toas", "psr">>}

AttrNames == {"toas", "flags", "backend_flags"}

\* What an attribute of the domain object may hold: an array, an empty
\* array, a scalar, an accessor returning an array.
AttrVals ==
    {Array(<<1, 2>>), Array(<<>>), Scalar(7), Accessor(Array(<<3, 4>>))}

\* The domain objects of the decorator specification: any attributes
\* present, with any of the values.
WrapperPsrs == UNION {[S -> AttrVals] : S \in SUBSET AttrNames}

\* The masks a caller passes: as long as the arrays, shorter, empty.
MaskVals == {<<TRUE, FALSE>>, <<TRUE>>, <<>>}

\* The value given for positional argument i, and for a keyword argument.
PosArg(i) == Scalar(10 * i)

KwArg == Scalar(0)

InitWrapper ==
    /\ psr \in WrapperPsrs
    /\ func = [name |-> "wrapped", cb |-> None]
    /\ ret = [op |-> "none"]
    /\ calls = <<>>

\* wrapper(*args, **kwargs) with the first n parameters given by position,
\* the parameters kws by keyword, and psr and mask given or not.
WrapperCall ==
    \E funcargs \in FuncSigs :
    \E n \in 0..Len(funcargs) :
    \E kws \in SUBSET ({funcargs[i] : i \in (n + 1)..Len(funcargs)} \ {"psr"}) :
    \E withpsr \in BOOLEAN :
    \E mask \in SUBSET MaskVals :
        /\ Cardinality(mask) <= 1
        /\ LET args   == [i \in 1..n |-> PosArg(i)]
               names  == kws \cup (IF withpsr THEN {"psr"} ELSE {})
                             \cup (IF mask = {} THEN {} ELSE {"mask"})
               kwargs == [k \in names |->
                            IF k = "psr" THEN psr
                            ELSE IF k = "mask" THEN CHOOSE m \in mask : TRUE
                            ELSE KwArg]
           IN  ret' = [op |-> "wrapper", funcargs |-> funcargs, nargs |-> n,
                       kwargs |-> kwargs,
                       res |-> wrapper(funcargs, args, kwargs)]
        /\ UNCHANGED <<psr, func, calls>>

NextWrapper == WrapperCall

SpecWrapper == InitWrapper /\ [][NextWrapper]_vars

\* ---------------------------------------------- claims on the decorator

\* The declared parameters of the last call given neither by position nor
\* by keyword.
Remaining ==
    {ret.funcargs[i] : i \in (ret.nargs + 1)..Len(ret.funcargs)}
        \ DOMAIN ret.kwargs

\* No parameter of the last call was given both by position and by keyword.
GivenOnce ==
    \A i \in 1..ret.nargs : ret.funcargs[i] \notin DOMAIN ret.kwargs

\* The value C3 claims for an attribute: the accessor's result, sliced by
\* the mask when it is an array as long as the mask.
ClaimedValue(obj, kwargs) ==
    LET val == IF obj.call THEN [obj EXCEPT !.call = FALSE] ELSE obj
    IN  IF /\ "mask" \in DOMAIN kwargs
           /\ val.kind = "array"
           /\ Len(val.v) = Len(kwargs["mask"])
        THEN [val EXCEPT !.v = BoolIndex(val.v, kwargs["mask"])]
        ELSE val

\* C3 as stated: called with psr by keyword, a prefix of the parameters by
\* position and any of the others by keyword, when every remaining parameter
\* is an attribute of psr the function is invoked with each remaining
\* parameter bound to the value of the attribute of its name (the
\* accessor's result; sliced by a mask of the array's length).
C3_BindsByName ==
    (/\ ret.op = "wrapper"
     /\ "psr" \in DOMAIN ret.kwargs
     /\ GivenOnce
     /\ \A a \in Remaining : a \in DOMAIN psr)
        => /\ ret.res.err = "none"
           /\ \A a \in Remaining :
                ret.res.bound[a] = ClaimedValue(psr[a], ret.kwargs)

\* C4 as stated: when some declared parameter has no positional value, no
\* keyword value and cannot be taken from psr (psr is not given, or lacks
\* the attribute), the call fails with the missing-argument error of the
\* call binding.
C4_MissingArgument ==
    (/\ ret.op = "wrapper"
     /\ GivenOnce
     /\ \E a \in Remaining :
            "psr" \notin DOMAIN ret.kwargs \/ a \notin DOMAIN psr)
        => ret.res.err = "TypeError: missing required positional argument"

\* ------------------------------------------------- Selection (54-83)

\* inspect.getfullargspec(func).args of the catalog's functions.
FuncArgs(name) ==
    IF name \in {"cut_half", "no_selection"} THEN <<"toas">>
    ELSE IF name = "custom_backends_dict"
    THEN <<"backend_flags", "flags", "toas">>
    ELSE <<"backend_flags">>

\* func(*targs, **kwargs) for a selection function f entered with the
\* binding b: what it returns and what its nonlocal cb is left with.
Apply(f, b) ==
    LET Plain(r) == [err |-> r.err, out |-> r.out, cb |-> f.cb]
    IN  CASE f.name = "cut_half" -> Plain(cut_half(b["toas"].v))
          [] f.name = "no_selection" -> Plain(no_selection(b["toas"].v))
          [] f.name = "by_backend" -> Plain(by_backend(b["backend_flags"].v))
          [] f.name = "nanograv_backends" ->
                Plain(nanograv_backends(b["backend_flags"].v))
          [] f.name = "custom_backends" ->
                custom_backends(f.cb, b["backend_flags"].v)
          [] f.name = "custom_backends_dict" ->
                custom_backends_dict(f.cb, b["backend_flags"].v,
                                     b["flags"].v, b["toas"].v)

\* A masks property that returns the mapping of the previous access.
masks_memoized(f, p) ==
    IF ret.op \in {"masks", "call"}
    THEN [err |-> ret.err, out |-> ret.masks, cb |-> f.cb]
    ELSE LET b == wrapper(FuncArgs(f.name), <<>>, [k \in {"psr"} |-> p])
         IN  IF b.err # "none" THEN [err |-> b.err, out |-> <<>>, cb |-> f.cb]
             ELSE Apply(f, b.bound)

\* Selection.masks, lines 61-63: selection_func(func)(psr=self._psr)
masks(f, p) ==
    LET b == wrapper(FuncArgs(f.name), <<>>, [k \in {"psr"} |-> p])
    IN  IF b.err # "none" THEN [err |-> b.err, out |-> <<>>, cb |-> f.cb]
        ELSE Apply(f, b.bound)

\* val * arr for a boolean mask and an array of its length
Times(val, arr) == [i \in 1..Len(val) |-> IF val[i] THEN arr[i] ELSE 0]

\* A masked-array dictionary that keeps the entries the mask leaves out.
get_masked_array_dict_inverted(kmasks, arr) ==
    [key \in DOMAIN kmasks |->
        [i \in 1..Len(kmasks[key]) |-> IF kmasks[key][i] THEN 0 ELSE arr[i]]]

\* Selection._get_masked_array_dict, lines 65-66
get_masked_array_dict(kmasks, arr) ==
    [key \in DOMAIN kmasks |-> Times(kmasks[key], arr)]

\* The parameter factory: the instance is known by the name it was made with.
Parameter(pname) == [made_with |-> pname]

\* kname without the test on the label.
KNameAlwaysJoined(key, parname) == Join(<<key, parname>>)

\* Line 71: kname = "_".join([key, parname]) if key else parname
KName(key, parname) ==
    IF key # <<>> THEN Join(<<key, parname>>) ELSE parname

\* Line 72: pname = "_".join([self._psr.name, kname])
PName(name, kname) == Join(<<name, kname>>)

\* A loop body that records the parameter and the mask under pname.
LoopBodyKeyedByPName(acc, key, val, parname, name) ==
    LET pname == PName(name, KName(key, parname))
    IN  [params |-> DictUpdate(acc.params, [k \in {pname} |-> Parameter(pname)]),
         kmasks |-> DictUpdate(acc.kmasks, [k \in {pname} |-> val]),
         calls  |-> Append(acc.calls, pname)]

\* Lines 71-74: one turn of the loop over masks.items().
LoopBody(acc, key, val, parname, name) ==
    LET kname == KName(key, parname)
        pname == PName(name, kname)
    IN  [params |-> DictUpdate(acc.params, [k \in {kname} |-> Parameter(pname)]),
         kmasks |-> DictUpdate(acc.kmasks, [k \in {kname} |-> val]),
         calls  |-> Append(acc.calls, pname)]

\* Lines 69-74: the loop, over the keys not yet visited.
RECURSIVE Loop(_, _, _, _, _)
Loop(acc, keys, m, parname, name) ==
    IF keys = {} THEN acc
    ELSE LET key == CHOOSE k \in keys : TRUE
         IN  Loop(LoopBody(acc, key, m[key], parname, name),
                  keys \ {key}, m, parname, name)

\* arr=None, or an array
NoArr == [given |-> FALSE, v |-> <<>>]

Arr(a) == [given |-> TRUE, v |-> a]

\* Selection.__call__(parname, parameter, arr), lines 68-81: the pair
\* returned, with the mapping masks gave, the factory's calls and the cb
\* the selection function is left with.
AdapterCall(f, p, parname, arr) ==
    LET m   == masks(f, p)
        acc == Loop([params |-> <<>>, kmasks |-> <<>>, calls |-> <<>>],
                    DOMAIN m.out, m.out, parname, p.name.v)
    IN  IF m.err # "none"
        THEN [err |-> m.err, masks |-> <<>>, params |-> <<>>, second |-> <<>>,
              calls |-> <<>>, cb |-> m.cb]
        ELSE [err    |-> "none",
              masks  |-> m.out,
              params |-> acc.params,
              second |-> IF arr.given
                         THEN get_masked_array_dict(acc.kmasks, arr.v)
                         ELSE acc.kmasks,
              calls  |-> acc.calls,
              cb     |-> m.cb]

\* ------------------------------------------------- the adapter, in use

ParNames == {<<"e", "f", "a", "c">>}

AdapterTimes == {1, 2}

AdapterBackends == {ASP, XYZ}

\* The array given to the adapter for n observations: 2, 3, ...
ArrFor(n) == [i \in 1..n |-> i + 1]

\* The domain objects an adapter is made for: every time array and every
\* backend flag array of one length, with a flag table.
AdapterPsrs ==
    UNION {{MkPsr(J0, toas, bf, Const(n, XYZ), Const(n, <<"L">>)) :
                toas \in [1..n -> AdapterTimes], bf \in [1..n -> AdapterBackends]}
           : n \in 0..MaxLen}

\* The selection functions Selection() is applied to.
AdapterFuncs ==
    {[name |-> x, cb |-> None] :
        x \in {"cut_half", "no_selection", "by_backend", "nanograv_backends"}}
    \cup {[name |-> "custom_backends", cb |-> Str(ASP)],
          [name |-> "custom_backends_dict",
           cb |-> Dict(<<[k |-> "backend", f |-> None], [k |-> "B", f |-> None]>>)]}

Accessed == ret.op \in {"masks", "call"}

Init ==
    /\ psr \in AdapterPsrs
    /\ func \in AdapterFuncs
    /\ ret = [op |-> "none"]
    /\ calls = <<>>

\* The caller changes one time of arrival of the domain object.
SetToa ==
    \E i \in 1..Len(psr.toas.v) : \E x \in AdapterTimes :
        /\ x # psr.toas.v[i]
        /\ psr' = [psr EXCEPT !.toas.v[i] = x]
        /\ UNCHANGED <<func, ret, calls>>

\* The caller changes one backend flag of the domain object.
SetBackendFlag ==
    \E i \in 1..Len(psr.backend_flags.v) : \E x \in AdapterBackends :
        /\ x # psr.backend_flags.v[i]
        /\ psr' = [psr EXCEPT !.backend_flags.v[i] = x]
        /\ UNCHANGED <<func, ret, calls>>

\* adapter.masks is read.  ret keeps the domain object as it was read, and
\* whether the mapping differs from the one the access before it used.
ReadMasks ==
    LET m == masks(func, psr)
    IN  /\ ret' = [op |-> "masks", psr |-> psr, func |-> func, err |-> m.err,
                   masks |-> m.out,
                   renewed |-> Accessed /\ m.out # ret.masks]
        /\ func' = [func EXCEPT !.cb = m.cb]
        /\ UNCHANGED <<psr, calls>>

\* adapter(parname, parameter) and adapter(parname, parameter, arr) with
\* an array aligned with the observations.
CallAdapter ==
    \E parname \in ParNames :
    \E arr \in {NoArr, Arr(ArrFor(Len(psr.toas.v)))} :
        LET r == AdapterCall(func, psr, parname, arr)
        IN  /\ ret' = [op |-> "call", psr |-> psr, func |-> func, err |-> r.err,
                       masks |-> r.masks,
                       renewed |-> Accessed /\ r.masks # ret.masks,
                       parname |-> parname, arr |-> arr,
                       params |-> r.params, second |-> r.second]
            /\ calls' = r.calls
            /\ func' = [func EXCEPT !.cb = r.cb]
            /\ UNCHANGED psr

Next ==
    \/ SetToa
    \/ SetBackendFlag
    \/ ReadMasks
    \/ CallAdapter

Spec == Init /\ [][Next]_vars

\* ------------------------------------------------ claims on the adapter

\* What the selection function f yields on the attributes of the domain
\* object p as they are, whole: the function applied to the arrays.
Direct(f, p) ==
    LET r == CASE f.name = "cut_half" -> cut_half(p.toas.v)
               [] f.name = "no_selection" -> no_selection(p.toas.v)
               [] f.name = "by_backend" -> by_backend(p.backend_flags.v)
               [] f.name = "nanograv_backends" ->
                    nanograv_backends(p.backend_flags.v)
               [] f.name = "custom_backends" ->
                    custom_backends(f.cb, p.backend_flags.v)
               [] f.name = "custom_backends_dict" ->
                    custom_backends_dict(f.cb, p.backend_flags.v, p.flags.v,
                                         p.toas.v)
    IN  [err |-> r.err, out |-> r.out]

\* The composite parameter name of a label: psr.name_label_parname, or
\* psr.name_parname for the empty label.
CompositeName(label) ==
    IF label # <<>>
    THEN ret.psr.name.v \o <<"_">> \o label \o <<"_">> \o ret.parname
    ELSE ret.psr.name.v \o <<"_">> \o ret.parname

\* The name without the domain object's: label_parname, or parname.
ShortName(label) ==
    IF label # <<>> THEN label \o <<"_">> \o ret.parname ELSE ret.parname

\* C1: a call of the adapter calls the parameter factory exactly once per
\* label of the mapping masks returns, with the label's composite name
\* psr.name_label_parname (psr.name_parname for the empty label); with an
\* empty mapping the factory is not called and no error is raised.
C1_FactoryCalls ==
    (ret.op = "call" /\ Direct(ret.func, ret.psr).err = "none") =>
        LET m == Direct(ret.func, ret.psr).out
        IN  /\ ret.err = "none"
            /\ Len(calls) = Cardinality(DOMAIN m)
            /\ \A label \in DOMAIN m :
                 Cardinality({i \in 1..Len(calls) :
                                calls[i] = CompositeName(label)}) = 1

\* The adapter was called over a mapping of two labels, and the factory
\* was called twice, with the composite name of each.
C1_Witness ==
    /\ ret.op = "call"
    /\ ret.err = "none"
    /\ Cardinality(DOMAIN ret.masks) = 2
    /\ Len(calls) = 2
    /\ \A label \in DOMAIN ret.masks : CompositeName(label) \in Range(calls)

\* C2 as stated: the two mappings returned have the same keys, and every
\* key is the composite name passed to the factory for its label.
C2_Original ==
    (ret.op = "call" /\ ret.err = "none") =>
        /\ DOMAIN ret.params = DOMAIN ret.second
        /\ DOMAIN ret.params = {CompositeName(label) : label \in DOMAIN ret.masks}

\* C2 amended: the two mappings returned have the same keys, and every key
\* is label_parname (parname for the empty label), the composite name
\* without the domain object's name; the parameter under the key is the one
\* the factory made for psr.name + "_" + key.
C2_ShortKeys ==
    (ret.op = "call" /\ ret.err = "none") =>
        /\ DOMAIN ret.params = DOMAIN ret.second
        /\ DOMAIN ret.params = {ShortName(label) : label \in DOMAIN ret.masks}
        /\ \A label \in DOMAIN ret.masks :
                ret.params[ShortName(label)].made_with = CompositeName(label)
        /\ \A key \in DOMAIN ret.params :
                ret.params[key].made_with = ret.psr.name.v \o <<"_">> \o key

\* The adapter returned two mappings of two keys.
C2_Witness ==
    /\ ret.op = "call"
    /\ ret.err = "none"
    /\ Cardinality(DOMAIN ret.params) = 2
    /\ Cardinality(DOMAIN ret.second) = 2

\* C9: called with an array, the second mapping holds for each label the
\* elementwise product of the label's mask and the array (the entries not
\* selected zero, the length that of the array); called without, it holds
\* the mask of each label; the keys are the same in both cases.
C9_MaskedArrays ==
    (ret.op = "call" /\ ret.err = "none") =>
        /\ DOMAIN ret.second = {ShortName(label) : label \in DOMAIN ret.masks}
        /\ \A label \in DOMAIN ret.masks :
            LET got == ret.second[ShortName(label)]
            IN  IF ret.arr.given
                THEN /\ DOMAIN got = 1..Len(ret.arr.v)
                     /\ \A i \in 1..Len(ret.arr.v) :
                            got[i] = IF ret.masks[label][i]
                                     THEN ret.arr.v[i] ELSE 0
                ELSE got = ret.masks[label]

\* The adapter was given an array and returned, for a label, an array with
\* an entry kept and an entry zeroed.
C9_Witness ==
    /\ ret.op = "call"
    /\ ret.err = "none"
    /\ ret.arr.given
    /\ \E label \in DOMAIN ret.masks : \E i, j \in 1..Len(ret.arr.v) :
            /\ ret.second[ShortName(label)][i] = ret.arr.v[i]
            /\ ret.second[ShortName(label)][j] = 0
            /\ ret.arr.v[j] # 0

\* C10: every read of masks and every call of the adapter uses the mapping
\* the selection function yields on the attributes of the domain object as
\* they are at that moment, whole (no mask slicing): nothing is kept from
\* an earlier access.
C10_NoCaching ==
    Accessed =>
        /\ ret.err = Direct(ret.func, ret.psr).err
        /\ ret.masks = Direct(ret.func, ret.psr).out

\* masks was read after the domain object changed since the access before,
\* and gave another mapping than that access.
C10_Witness ==
    /\ ret.op = "masks"
    /\ ret.err = "none"
    /\ ret.renewed
    /\ ret.psr = psr

====
